---- MODULE Spec2Model ----
(***************************************************************************)
(* PythonAutoImport (src/auto_import.py): the import statement builder,    *)
(* the import statement parser, the line classifier, the insertion point   *)
(* scan and the merge / wrap step of InsertPythonAutoImportCommand.        *)
(*                                                                         *)
(* Text is modelled character by character: a Python str is a sequence of  *)
(* one-character strings, the buffer of the view is one such sequence with *)
(* "\n" between its lines, and a sublime.Region is a record [a, b] of      *)
(* offsets into it.                                                        *)
(***************************************************************************)
EXTENDS Integers, Sequences, FiniteSets, TLC

VARIABLES
    doc,        \* the buffer of the view (self.view), a sequence of characters
    before,     \* the buffer as it was when the last insert_import started
    args,       \* the arguments and settings of the last insert_import call
    result,     \* how the last insert_import call ended
    edit,       \* the view.replace calls the last insert_import made
    scan,       \* the locals of the last insert_import call when it ended
    host,       \* the view's file name, the settings, the commands on offer
    calls,      \* number of insert_import calls made so far
    bis_in,     \* build_import_statement: the inputs under study
    bis_out     \* build_import_statement: the value returned per root_path form

vars == <<doc, before, args, result, edit, scan, host, calls, bis_in, bis_out>>

----------------------------------------------------------------------------
(* Python str operations, on sequences of characters                        *)

None == <<"<None>">>

SetMin(S) == CHOOSE x \in S : \A y \in S : x <= y
SetMax(S) == CHOOSE x \in S : \A y \in S : x >= y

\* s.startswith(p), s.endswith(p)
StartsWith(s, p) == Len(s) >= Len(p) /\ SubSeq(s, 1, Len(p)) = p
EndsWith(s, p) == Len(s) >= Len(p) /\ SubSeq(s, Len(s) - Len(p) + 1, Len(s)) = p

\* str.strip() / str.strip(chars)
StripChars(s, cs) ==
    IF \A i \in 1..Len(s) : s[i] \in cs THEN <<>>
    ELSE LET first == CHOOSE i \in 1..Len(s) :
                          s[i] \notin cs /\ \A j \in 1..(i - 1) : s[j] \in cs
             last == CHOOSE i \in 1..Len(s) :
                         s[i] \notin cs /\ \A j \in (i + 1)..Len(s) : s[j] \in cs
         IN  SubSeq(s, first, last)
WhiteSpace == {" ", "\t", "\n"}
Strip(s) == StripChars(s, WhiteSpace)

\* s.replace(c, d) for single characters, s.replace(c, '')
ReplaceChar(s, c, d) == [i \in 1..Len(s) |-> IF s[i] = c THEN d ELSE s[i]]
RemoveChars(s, cs) == SelectSeq(s, LAMBDA c : c \notin cs)

\* the offsets (1-based) at which p occurs in s
Occurrences(s, p) ==
    {i \in 1..(Len(s) - Len(p) + 1) : SubSeq(s, i, i + Len(p) - 1) = p}

\* the occurrences str.split / str.replace use: scanned left to right,
\* never overlapping
RECURSIVE Matches(_, _, _)
Matches(s, p, from) ==
    LET later == {i \in Occurrences(s, p) : i >= from}
    IN  IF later = {} THEN <<>>
        ELSE <<SetMin(later)>> \o Matches(s, p, SetMin(later) + Len(p))

\* s.split(p)
Split(s, p) ==
    LET m == Matches(s, p, 1)
    IN  [k \in 1..(Len(m) + 1) |->
            SubSeq(s,
                   IF k = 1 THEN 1 ELSE m[k - 1] + Len(p),
                   IF k = Len(m) + 1 THEN Len(s) ELSE m[k] - 1)]

\* sep.join(parts)
RECURSIVE Join(_, _)
Join(parts, sep) ==
    IF parts = <<>> THEN <<>>
    ELSE IF Len(parts) = 1 THEN parts[1]
    ELSE parts[1] \o sep \o Join(Tail(parts), sep)

\* s.replace(p, ''), which is ''.join(s.split(p))
RemoveAll(s, p) == Join(Split(s, p), <<>>)

\* x in list
Contains(list, x) == \E k \in 1..Len(list) : list[k] = x

----------------------------------------------------------------------------
(* Literals of the source                                                   *)

COMPONENT == <<"c", "o", "m", "p", "o", "n", "e", "n", "t">>
ABSOLUTE == <<"a", "b", "s", "o", "l", "u", "t", "e">>
RELATIVE == <<"r", "e", "l", "a", "t", "i", "v", "e">>

kw_from == <<"f", "r", "o", "m">>
kw_import == <<"i", "m", "p", "o", "r", "t">>
kw_try == <<"t", "r", "y">>
kw_except == <<"e", "x", "c", "e", "p", "t">>
dunder == <<"_", "_">>
dot_py == <<".", "p", "y">>
init_name == <<"_", "_", "i", "n", "i", "t", "_", "_">>
dquotes == <<"\"", "\"", "\"">>
squotes == <<"'", "'", "'">>

----------------------------------------------------------------------------
(* build_import_statement                                                   *)

\* lines 47-62 without the strip('.') of line 62
import_path_unstripped(path, root_path) ==
    LET r0 == IF root_path = None THEN <<"/">> ELSE root_path
        r1 == ReplaceChar(r0, ".", "/")
        r2 == IF ~StartsWith(r1, <<"/">>) THEN <<"/">> \o r1 ELSE r1
        p1 == IF ~StartsWith(path, <<"/">>) THEN <<"/">> \o path ELSE path
        p2 == IF StartsWith(p1, r2) THEN SubSeq(p1, Len(r2) + 1, Len(p1)) ELSE p1
        p3 == IF EndsWith(p2, dot_py) THEN SubSeq(p2, 1, Len(p2) - Len(dot_py)) ELSE p2
        p4 == IF EndsWith(p3, init_name)
              THEN SubSeq(p3, 1, Len(p3) - Len(init_name)) ELSE p3
    IN  ReplaceChar(p4, "/", ".")

\* lines 47-62 without the step of lines 59-60 (the package-init name kept)
import_path_keeping_init(path, root_path) ==
    LET r0 == IF root_path = None THEN <<"/">> ELSE root_path
        r1 == ReplaceChar(r0, ".", "/")
        r2 == IF ~StartsWith(r1, <<"/">>) THEN <<"/">> \o r1 ELSE r1
        p1 == IF ~StartsWith(path, <<"/">>) THEN <<"/">> \o path ELSE path
        p2 == IF StartsWith(p1, r2) THEN SubSeq(p1, Len(r2) + 1, Len(p1)) ELSE p1
        p3 == IF EndsWith(p2, dot_py) THEN SubSeq(p2, 1, Len(p2) - Len(dot_py)) ELSE p2
    IN  StripChars(ReplaceChar(p3, "/", "."), {"."})

\* lines 47-62: the dotted module path of path below root_path
import_path(path, root_path) ==
    LET r0 == IF root_path = None THEN <<"/">> ELSE root_path
        r1 == ReplaceChar(r0, ".", "/")
        r2 == IF ~StartsWith(r1, <<"/">>) THEN <<"/">> \o r1 ELSE r1
        p1 == IF ~StartsWith(path, <<"/">>) THEN <<"/">> \o path ELSE path
        p2 == IF StartsWith(p1, r2) THEN SubSeq(p1, Len(r2) + 1, Len(p1)) ELSE p1
        p3 == IF EndsWith(p2, dot_py) THEN SubSeq(p2, 1, Len(p2) - Len(dot_py)) ELSE p2
        p4 == IF EndsWith(p3, init_name)
              THEN SubSeq(p3, 1, Len(p3) - Len(init_name)) ELSE p3
    IN  StripChars(ReplaceChar(p4, "/", "."), {"."})

\* lines 12-73 with the Component template used for every style that is
\* not Absolute
build_import_statement_any_style(symbol, path, root_path, style) ==
    LET module == import_path(path, root_path)
    IN  IF style = ABSOLUTE
        THEN kw_import \o <<" ">> \o module \o <<".">> \o symbol
        ELSE kw_from \o <<" ">> \o module \o <<" ">> \o kw_import \o <<" ">> \o symbol

\* lines 12-73; None is Python's None (a bare return)
build_import_statement(symbol, path, root_path, style) ==
    LET module == import_path(path, root_path)
    IN  IF style = COMPONENT
        THEN kw_from \o <<" ">> \o module \o <<" ">> \o kw_import \o <<" ">> \o symbol
        ELSE IF style = ABSOLUTE
        THEN kw_import \o <<" ">> \o module \o <<".">> \o symbol
        ELSE None

----------------------------------------------------------------------------
(* split_import_components                                                  *)

\* lines 141-146: [component.strip() for component in right.split(',')
\*                 if component]
RECURSIVE StripNonEmpty(_)
StripNonEmpty(pieces) ==
    IF pieces = <<>> THEN <<>>
    ELSE (IF pieces[1] # <<>> THEN <<Strip(pieces[1])>> ELSE <<>>)
         \o StripNonEmpty(Tail(pieces))

\* lines 123-147.  "left, right = import_statement.split('import')" unpacks
\* exactly two pieces and raises ValueError otherwise.
split_import_components(import_statement) ==
    LET pieces == Split(import_statement, kw_import)
    IN  IF Len(pieces) # 2
        THEN [raised |-> TRUE, base |-> None, components |-> <<>>]
        ELSE LET left == pieces[1]
                 right == RemoveChars(pieces[2], {"(", ")", "\\"})
             IN  [raised |-> FALSE,
                  base |-> Strip(RemoveAll(left, kw_from)),
                  components |-> StripNonEmpty(Split(right, <<",">>))]

----------------------------------------------------------------------------
(* The line classifier                                                      *)

\* lines 83-93: IMPORT_CHECK_SKIP_RE.match(line)
IMPORT_CHECK_SKIP_RE(line) ==
    \/ line = <<>>
    \/ line # <<>> /\ line[1] \in WhiteSpace \cup {"#", "'", "\""}
    \/ StartsWith(line, dunder)
    \/ StartsWith(line, kw_import)
    \/ StartsWith(line, kw_from)
    \/ StartsWith(line, kw_try)
    \/ StartsWith(line, kw_except)

\* lines 96-101: IMPORT_CHECK_VALID_RE.match(line)
IMPORT_CHECK_VALID_RE(line) ==
    \/ StartsWith(line, dunder)
    \/ StartsWith(line, kw_import)
    \/ StartsWith(line, kw_from)

\* line 105: INDENT_RE.match(line)
INDENT_RE(line) == line # <<>> /\ line[1] \in {" ", "\t"}

\* lines 114-121
is_block_comment(line0) ==
    LET line == Strip(line0)
    IN  \/ line = dquotes
        \/ StartsWith(line, dquotes) /\ ~EndsWith(line, dquotes)
        \/ line = squotes
        \/ StartsWith(line, squotes) /\ ~EndsWith(line, squotes)

----------------------------------------------------------------------------
(* import_wrapper = textwrap.TextWrapper(width=76,                          *)
(*     subsequent_indent=' '*4, break_long_words=False)                     *)
(* The text wrapped here holds no hyphen, so a chunk is a maximal run of    *)
(* whitespace or of non-whitespace characters.                              *)

\* a width of 79, the three columns kept free for the continuation syntax
\* given to the wrapper as well
width_without_reserve == 76 + 3
width == 76
subsequent_indent == <<" ", " ", " ", " ">>
initial_indent == <<>>
tabsize == 8

\* text.expandtabs() for a text of one line that starts at column col
RECURSIVE expandtabs(_, _)
expandtabs(text, col) ==
    IF ~Contains(text, "\t") THEN text
    ELSE LET i == CHOOSE i \in 1..Len(text) :
                      text[i] = "\t" /\ \A j \in 1..(i - 1) : text[j] # "\t"
             pad == tabsize - ((col + i - 1) % tabsize)
         IN  SubSeq(text, 1, i - 1) \o [k \in 1..pad |-> " "]
             \o expandtabs(SubSeq(text, i + 1, Len(text)), col + i - 1 + pad)

\* TextWrapper._munge_whitespace: text.expandtabs(), then every whitespace
\* character becomes a space
munge_whitespace(text) ==
    LET expanded == expandtabs(text, 0)
    IN  [i \in 1..Len(expanded) |->
            IF expanded[i] \in WhiteSpace THEN " " ELSE expanded[i]]

\* TextWrapper._split on munged text
RECURSIVE split_chunks(_)
split_chunks(text) ==
    IF text = <<>> THEN <<>>
    ELSE LET other == {i \in 1..Len(text) : (text[i] = " ") # (text[1] = " ")}
             n == IF other = {} THEN Len(text) ELSE SetMin(other) - 1
         IN  <<SubSeq(text, 1, n)>> \o split_chunks(SubSeq(text, n + 1, Len(text)))

\* chunk.strip() == ''
IsBlank(chunk) == Strip(chunk) = <<>>

RECURSIVE SumLen(_)
SumLen(chunks) == IF chunks = <<>> THEN 0 ELSE Len(chunks[1]) + SumLen(Tail(chunks))

\* TextWrapper._wrap_chunks, inner loop: how many of the chunks fit in room
fit_count(chunks, room) ==
    SetMax({k \in 0..Len(chunks) : SumLen(SubSeq(chunks, 1, k)) <= room})

\* _handle_long_word with break_long_words=False: a chunk wider than the
\* line goes on a line of its own
take_count(chunks, room, n) ==
    IF n = 0 /\ chunks # <<>> /\ Len(chunks[1]) > room THEN 1 ELSE n

\* drop_whitespace: a blank chunk never ends a line
drop_trailing(cur_line) ==
    IF cur_line # <<>> /\ IsBlank(cur_line[Len(cur_line)])
    THEN SubSeq(cur_line, 1, Len(cur_line) - 1) ELSE cur_line

\* TextWrapper._wrap_chunks: one pass of its outer loop per call
RECURSIVE wrap_chunks(_, _)

wrap_emit(rest, lines, indent, cur_line) ==
    IF cur_line # <<>>
    THEN wrap_chunks(rest, Append(lines, indent \o Join(cur_line, <<>>)))
    ELSE wrap_chunks(rest, lines)

wrap_take(chunks, lines, indent, m) ==
    wrap_emit(SubSeq(chunks, m + 1, Len(chunks)), lines, indent,
              drop_trailing(SubSeq(chunks, 1, m)))

wrap_line(chunks, lines, indent) ==
    wrap_take(chunks, lines, indent,
              take_count(chunks, width - Len(indent),
                         fit_count(chunks, width - Len(indent))))

wrap_chunks(chunks, lines) ==
    IF chunks = <<>> THEN lines
    ELSE wrap_line(\* drop_whitespace: a blank chunk starts no line but the first
                   IF IsBlank(chunks[1]) /\ lines # <<>> THEN Tail(chunks) ELSE chunks,
                   lines,
                   IF lines # <<>> THEN subsequent_indent ELSE initial_indent)

\* import_wrapper.wrap(text): the list of wrapped lines
import_wrapper_wrap(text) == wrap_chunks(split_chunks(munge_whitespace(text)), <<>>)

----------------------------------------------------------------------------
(* The host editor's API as insert_import calls it (sublime.Region,         *)
(* View.size, View.lines, View.substr, View.replace)                        *)

Region(a, b) == [a |-> a, b |-> b]
begin(r) == IF r.a < r.b THEN r.a ELSE r.b
end(r) == IF r.a < r.b THEN r.b ELSE r.a

\* a local that holds no Region: None (line 226), an int (line 254)
NoRegion == [a |-> -1, b |-> -1]

\* sublime.Region.__len__ is size(), so "not region" holds of an empty
\* region as it does of None (line 236)
Falsy(r) == r = NoRegion \/ r.a = r.b

view_size(text) == Len(text)

\* the regions of all lines of the buffer, without their newline
AllLines(text) ==
    LET nl == {i \in 1..Len(text) : text[i] = "\n"}
        nth(k) == CHOOSE i \in nl : Cardinality({j \in nl : j <= i}) = k
    IN  [k \in 1..(Cardinality(nl) + 1) |->
            Region(IF k = 1 THEN 0 ELSE nth(k - 1),
                   IF k = Cardinality(nl) + 1 THEN Len(text) ELSE nth(k) - 1)]

\* The two answers a build of the editor may give to View.lines for a
\* region that starts past the end of the buffer (line 256, when the import
\* is the last line): no line at all, or the region clipped to the buffer.
PastEnd == {"none", "clipped"}

\* View.lines(region): the lines that intersect the region
view_lines(text, r, past_end) ==
    IF r.a > Len(text) /\ past_end = "none" THEN <<>>
    ELSE LET lo == IF begin(r) > Len(text) THEN Len(text) ELSE begin(r)
             hi == IF end(r) > Len(text) THEN Len(text) ELSE end(r)
         IN  SelectSeq(AllLines(text), LAMBDA l : l.b >= lo /\ l.a <= hi)

\* View.substr(region)
view_substr(text, r) == SubSeq(text, begin(r) + 1, end(r))

\* View.replace(edit, region, string); offsets are clipped to the buffer
view_replace(text, r, string) ==
    LET lo == IF begin(r) < 0 THEN 0 ELSE begin(r)
        hi == IF end(r) < 0 THEN 0 ELSE end(r)
    IN  SubSeq(text, 1, lo) \o string \o SubSeq(text, hi + 1, Len(text))

----------------------------------------------------------------------------
(* InsertPythonAutoImportCommand                                            *)

UpperCase == {"A", "B", "C", "D", "E", "F", "G", "H", "I", "J", "K", "L", "M",
              "N", "O", "P", "Q", "R", "S", "T", "U", "V", "W", "X", "Y", "Z"}

\* line 77 and line 79
WINDOWS_DRIVE_LETTER_RE(path) ==
    Len(path) >= 3 /\ path[1] \in UpperCase /\ path[2] = ":" /\ path[3] = "\\"
UNIX_DRIVE_LETTER_RE(path) ==
    Len(path) >= 3 /\ path[1] = "/" /\ path[2] \in UpperCase /\ path[3] = "/"

\* lines 163-188
paths_equal(symbol_path, view_path) ==
    LET sub == IF UNIX_DRIVE_LETTER_RE(symbol_path)
               THEN <<symbol_path[2], ":", "\\">> \o SubSeq(symbol_path, 4, Len(symbol_path))
               ELSE symbol_path
        sp == IF WINDOWS_DRIVE_LETTER_RE(view_path)
              THEN ReplaceChar(sub, "/", "\\") ELSE symbol_path
    IN  sp = view_path

\* How an invocation ends: the status message of lines 208, 212, 233 / 267,
\* 291 and 311, or the exception that leaves insert_import.
SELF_IMPORT == "self_import"
UNSUPPORTED_STYLE == "unsupported_style"
ALREADY_EXISTS == "already_exists"
MERGED == "merged"
INSERTED == "inserted"
TYPE_ERROR == "TypeError"
VALUE_ERROR == "ValueError"
ATTRIBUTE_ERROR == "AttributeError"
Statuses == {SELF_IMPORT, UNSUPPORTED_STYLE, ALREADY_EXISTS, MERGED, INSERTED}

\* the locals of insert_import before the loop has set them
NoScan ==
    [import_statement |-> None, line_no |-> 0, insert_at |-> NoRegion,
     in_block |-> FALSE, file_top |-> TRUE, existing_import |-> None,
     existing_import_components |-> <<>>, new_import_statement |-> None,
     wrapped_import_statement |-> <<>>, final_import_statement |-> None]

\* an invocation that ends without a view.replace
Ended(text, status, locals) ==
    [doc |-> text, result |-> status, edit |-> <<>>, scan |-> locals]

\* an invocation that ends after view.replace(edit, region, string)
Replaced(text, status, locals, region, string) ==
    [doc |-> view_replace(text, region, string), result |-> status,
     edit |-> <<[region |-> region, string |-> string]>>, scan |-> locals]

\* lines 254-261: existing_import and existing_import_line_region after the
\* loop over the lines that follow the import line
RECURSIVE continuation(_, _, _, _, _)
continuation(text, lines, k, existing_import, line_region) ==
    IF k > Len(lines)
    THEN [existing_import |-> existing_import, line_region |-> line_region]
    ELSE LET existing_import_line == view_substr(text, lines[k])
         IN  IF ~INDENT_RE(existing_import_line)
             THEN [existing_import |-> existing_import, line_region |-> lines[k]]
             ELSE continuation(text, lines, k + 1,
                               existing_import \o existing_import_line, lines[k])

\* line 280: final_import_statement.replace('\n', ' \\\n') on the joined lines
backslash_form(wrapped) == Join(wrapped, <<" ", "\\", "\n">>)

\* line 282: final_import_statement.replace('import ', 'import (') + ')'
paren_form(wrapped) ==
    Join(Split(Join(wrapped, <<"\n">>), kw_import \o <<" ">>), kw_import \o <<" ", "(">>)
    \o <<")">>

\* lines 277-282
final_import_statement(wrapped, existing_import) ==
    IF Len(wrapped) > 1
    THEN IF Contains(existing_import, "\\")
         THEN backslash_form(wrapped) ELSE paren_form(wrapped)
    ELSE Join(wrapped, <<"\n">>)

\* lines 284-291; existing_import_line_region is still the int of line 254
\* when no line followed the import, and an int has no begin()
merge_replace(text, region, cont, locals) ==
    IF cont.line_region = NoRegion THEN Ended(text, ATTRIBUTE_ERROR, locals)
    ELSE Replaced(text, MERGED, locals,
                  Region(begin(region), begin(cont.line_region) - 1),
                  locals.final_import_statement)

\* lines 274-282
merge_wrap(text, region, cont, locals, wrapped) ==
    merge_replace(text, region, cont,
                  [locals EXCEPT !.wrapped_import_statement = wrapped,
                                 !.final_import_statement =
                                     final_import_statement(wrapped, cont.existing_import)])

\* lines 269-272
new_import_statement(base, components) ==
    kw_from \o <<" ">> \o base \o <<" ">> \o kw_import \o <<" ">>
    \o Join(components, <<",", " ">>)

merge_render(text, region, cont, locals, statement) ==
    merge_wrap(text, region, cont,
               [locals EXCEPT !.new_import_statement = statement],
               import_wrapper_wrap(statement))

\* merge_parsed without the return of line 267: the status is reported and
\* the statement is written again all the same
merge_parsed_no_return(text, region, symbol, cont, locals, parsed) ==
    IF parsed.raised THEN Ended(text, VALUE_ERROR, locals)
    ELSE IF Contains(parsed.components, symbol)
    THEN [merge_render(text, region, cont,
                       [locals EXCEPT !.existing_import_components = parsed.components],
                       new_import_statement(parsed.base, parsed.components))
             EXCEPT !.result = ALREADY_EXISTS]
    ELSE merge_render(text, region, cont,
                      [locals EXCEPT !.existing_import_components = parsed.components],
                      new_import_statement(parsed.base, parsed.components \o <<symbol>>))

\* lines 263-272
merge_parsed(text, region, symbol, cont, locals, parsed) ==
    IF parsed.raised THEN Ended(text, VALUE_ERROR, locals)
    ELSE IF Contains(parsed.components, symbol)
    THEN Ended(text, ALREADY_EXISTS,
               [locals EXCEPT !.existing_import_components = parsed.components])
    ELSE merge_render(text, region, cont,
                      [locals EXCEPT !.existing_import_components = parsed.components],
                      new_import_statement(parsed.base, parsed.components \o <<symbol>>))

merge_continued(text, region, symbol, locals, cont) ==
    merge_parsed(text, region, symbol, cont,
                 [locals EXCEPT !.existing_import = cont.existing_import],
                 split_import_components(cont.existing_import))

\* lines 250-291: the line at `region` is an import of import_base
merge(text, region, line, symbol, past_end, locals) ==
    merge_continued(text, region, symbol, locals,
        continuation(text,
                     view_lines(text, Region(end(region) + 1, view_size(text)), past_end),
                     1, line, NoRegion))

\* the locals of insert_import while the loop is at line k
Locals(call, k, insert_at, flags) ==
    [NoScan EXCEPT !.import_statement = call.import_statement, !.line_no = k,
                   !.insert_at = insert_at, !.in_block = flags.in_block,
                   !.file_top = flags.file_top]

\* lines 305-311
insert(text, call, locals) ==
    Replaced(text, INSERTED, locals, locals.insert_at,
             view_substr(text, locals.insert_at) \o <<"\n">> \o call.import_statement)

\* lines 239-246: in_block and file_top after the line
flags_in_block(in_block, file_top, line) ==
    [in_block |-> in_block,
     file_top |-> IF ~in_block /\ ~StartsWith(line, <<"#">>) THEN FALSE ELSE file_top]
next_flags(flags, line) ==
    flags_in_block(IF is_block_comment(line) THEN ~flags.in_block ELSE flags.in_block,
                   flags.file_top, line)

\* lines 229-303: the loop over the lines of the buffer, from line k on
RECURSIVE scan_lines(_, _, _, _, _, _)

\* line 300 (continue) and the end of the for loop
advance(text, lines, k, call, insert_at, flags) ==
    IF k < Len(lines) THEN scan_lines(text, lines, k + 1, call, insert_at, flags)
    ELSE insert(text, call, Locals(call, k, insert_at, flags))

\* lines 248-303 with the test of line 298 left out: every skipped line
\* outside a block comment becomes the anchor
classify_anchor_on_every_skip(text, lines, k, call, insert_at, flags, line) ==
    IF /\ call.style = COMPONENT
       /\ StartsWith(Strip(line), kw_from \o <<" ">> \o call.import_base
                                  \o <<" ">> \o kw_import)
    THEN merge(text, lines[k], line, call.symbol, call.past_end,
               Locals(call, k, insert_at, flags))
    ELSE IF flags.in_block \/ IMPORT_CHECK_SKIP_RE(line)
    THEN advance(text, lines, k, call,
                 IF ~flags.in_block THEN lines[k] ELSE insert_at,
                 flags)
    ELSE insert(text, call, Locals(call, k, insert_at, flags))

\* lines 248-303
classify(text, lines, k, call, insert_at, flags, line) ==
    IF /\ call.style = COMPONENT
       /\ StartsWith(Strip(line), kw_from \o <<" ">> \o call.import_base
                                  \o <<" ">> \o kw_import)
    THEN merge(text, lines[k], line, call.symbol, call.past_end,
               Locals(call, k, insert_at, flags))
    ELSE IF flags.in_block \/ IMPORT_CHECK_SKIP_RE(line)
    THEN advance(text, lines, k, call,
                 IF ~flags.in_block /\ (IMPORT_CHECK_VALID_RE(line) \/ flags.file_top)
                 THEN lines[k] ELSE insert_at,
                 flags)
    ELSE \* line 303: break
         insert(text, call, Locals(call, k, insert_at, flags))

\* lines 230-246
scan_line(text, lines, k, call, insert_at, flags, line) ==
    IF Strip(line) = call.import_statement
    THEN Ended(text, ALREADY_EXISTS, Locals(call, k, insert_at, flags))
    ELSE classify(text, lines, k, call,
                  IF Falsy(insert_at) THEN lines[k] ELSE insert_at,
                  next_flags(flags, line), line)

scan_lines(text, lines, k, call, insert_at, flags) ==
    scan_line(text, lines, k, call, insert_at, flags, view_substr(text, lines[k]))

\* lines 214-303
scan_document(text, past_end, symbol, style, import_statement, parsed) ==
    IF parsed.raised
    THEN Ended(text, VALUE_ERROR, [NoScan EXCEPT !.import_statement = import_statement])
    ELSE scan_lines(text, view_lines(text, Region(0, view_size(text)), past_end), 1,
                    [import_statement |-> import_statement, import_base |-> parsed.base,
                     symbol |-> symbol, style |-> style, past_end |-> past_end],
                    NoRegion, [in_block |-> FALSE, file_top |-> TRUE])

\* lines 210-214
insert_built(text, past_end, symbol, style, import_statement) ==
    IF import_statement = None THEN Ended(text, UNSUPPORTED_STYLE, NoScan)
    ELSE scan_document(text, past_end, symbol, style, import_statement,
                       split_import_components(import_statement))

\* lines 190-311
insert_import(text, file_name, root_path, past_end, full_path, relative_path, symbol, style) ==
    \* line 182: re.match on the None of a view without a file
    IF file_name = None THEN Ended(text, TYPE_ERROR, NoScan)
    ELSE IF paths_equal(full_path, file_name) THEN Ended(text, SELF_IMPORT, NoScan)
    ELSE insert_built(text, past_end, symbol, style,
                      build_import_statement(symbol, relative_path, root_path, style))

----------------------------------------------------------------------------
(* The documents, views and arguments the model is run on                   *)

MaxSegs == 2      \* a document is made of at most MaxSegs segments of the pool
MaxCalls == 2     \* insert_import invocations in one behaviour

sp == <<" ">>
Words(ws) == Join(ws, sp)
Text(lines) == Join(lines, <<"\n">>)

sym_a == <<"a">>
sym_d == <<"d">>
sym_imports == kw_import \o <<"s">>
mod_m == <<"m">>
from_m_import == Words(<<kw_from, mod_m, kw_import>>)

\* the segments documents are made of, each a run of whole lines
Segments ==
    { <<<<>>>>,                                              \* a blank line
      <<<<"#", "c">>>>,                                      \* a comment
      <<dquotes, <<"t">>, dquotes>>,                         \* a docstring block
      <<Words(<<kw_import, <<"o">>>>)>>,                     \* import o
      <<<<"x">>>>,                                           \* code
      <<Words(<<from_m_import, sym_d>>)>>,                   \* from m import d
      <<from_m_import \o <<" ", "(", "a", ",">>,             \* from m import (a,
        <<" ", "b", ")">>>>,                                 \*  b)
      <<from_m_import \o <<" ", "(">>,                       \* from m import (
        <<" ", "a", ",">>,                                   \*  a,
        <<")">>>>,                                           \* )
      <<kw_try \o <<":">>,                                   \* try:
        sp \o Words(<<from_m_import, sym_a>>),               \*  from m import a
        <<" ", "x">>>> }                                     \*  x

RECURSIVE SegSeqs(_)
SegSeqs(n) ==
    IF n = 0 THEN {<<>>}
    ELSE SegSeqs(n - 1) \cup {Append(q, g) : q \in SegSeqs(n - 1), g \in Segments}

RECURSIVE Flatten(_)
Flatten(q) == IF q = <<>> THEN <<>> ELSE q[1] \o Flatten(Tail(q))

\* the buffers: a buffer whose last segment is the blank line ends with "\n"
Documents == {Text(Flatten(q)) : q \in SegSeqs(MaxSegs)}
OneSegment == {Text(Flatten(q)) : q \in SegSeqs(1)}

path_m == <<"/", "m", ".", "p", "y">>
path_unix == <<"/", "C", "/", "c", ".", "p", "y">>
path_windows == <<"C", ":", "\\", "c", ".", "p", "y">>

\* the results of Window.lookup_symbol_in_*: (full path, relative path)
entry_m == <<path_m, path_m>>
entry_self == <<path_unix, path_unix>>

Command(entry, symbol, style) == [entry |-> entry, symbol |-> symbol, style |-> style]

\* the insert_python_auto_import commands on offer: every symbol in the two
\* implemented styles, one command per unsupported style and one for a
\* symbol of the file itself
Commands ==
    {Command(entry_m, y, t) : y \in {sym_a, sym_d, sym_imports}, t \in {COMPONENT, ABSOLUTE}}
    \cup {Command(entry_m, sym_d, RELATIVE), Command(entry_m, sym_d, None),
          Command(entry_self, sym_d, COMPONENT)}

\* View.file_name() (None for a buffer with no file), the root_path setting
\* and the commands on offer
Host(file_name) == [file_name |-> file_name, root_path |-> <<"/">>, commands |-> Commands]

\* View.lines is asked about a region that starts past the end of the buffer
\* only when the import being extended is the last line of the buffer: for
\* every other buffer the builds of the editor agree
PastEndAnswers(text) ==
    LET lines == AllLines(text)
    IN  IF StartsWith(Strip(view_substr(text, lines[Len(lines)])), kw_from)
        THEN PastEnd ELSE {"clipped"}

NoArgs == Command(<<None, None>>, None, None)

\* Documents for the wrap step: one import of two names, on one line,
\* continued with a backslash or in parentheses, or in a try block above an
\* indented line of code, followed by a line of code.
\* The lengths put the merged statement on both sides of the width.
Name(c, n) == <<c>> \o [i \in 1..(n - 1) |-> "n"]
NameLengths == {1, 29, 30, 31, 72, 73, 77}
SymbolLengths == {1, 30, 72}
indent4 == <<" ", " ", " ", " ">>

WrapDocument(form, n1, n2) ==
    CASE form = "line" ->
            Text(<<from_m_import \o sp \o Name("a", n1) \o <<",", " ">> \o Name("b", n2),
                   <<"x">>>>)
      [] form = "backslash" ->
            Text(<<from_m_import \o sp \o Name("a", n1) \o <<",", " ", "\\">>,
                   indent4 \o Name("b", n2),
                   <<"x">>>>)
      [] form = "paren" ->
            Text(<<from_m_import \o <<" ", "(">> \o Name("a", n1) \o <<",">>,
                   indent4 \o Name("b", n2) \o <<")">>,
                   <<"x">>>>)
      [] form = "try" ->
            Text(<<kw_try \o <<":">>,
                   sp \o from_m_import \o sp \o Name("a", n1) \o <<",", " ">> \o Name("b", n2),
                   <<" ", "x">>,
                   <<"x">>>>)

WrapDocuments ==
    {WrapDocument(form, n1, n2) :
        form \in {"line", "backslash", "paren", "try"},
        n1 \in NameLengths, n2 \in NameLengths}

WrapHost ==
    [file_name |-> path_unix, root_path |-> <<"/">>,
     commands |-> {Command(entry_m, Name("d", n), COMPONENT) : n \in SymbolLengths}]

\* build_import_statement under study: a root directory, a file below or
\* beside it, and the forms the root_path argument is given in
MaxDepth == 2
DirNames == {<<"a">>, <<"a", "b">>}
FileNames == {<<"t", ".", "p", "y">>, init_name \o dot_py, <<"a", ".", "p", "y">>}

RECURSIVE Dirs(_)
Dirs(n) ==
    IF n = 0 THEN {<<>>}
    ELSE Dirs(n - 1) \cup {Append(q, d) : q \in Dirs(n - 1), d \in DirNames}

RootForms == {"bare", "trailing", "leading", "both", "dotted"}
RootForm(f, dirs) ==
    CASE f = "bare" -> Join(dirs, <<"/">>)
      [] f = "trailing" -> Join(dirs, <<"/">>) \o <<"/">>
      [] f = "leading" -> <<"/">> \o Join(dirs, <<"/">>)
      [] f = "both" -> <<"/">> \o Join(dirs, <<"/">>) \o <<"/">>
      [] f = "dotted" -> Join(dirs, <<".">>)

FilePath(dirs, file) == <<"/">> \o Join(Append(dirs, file), <<"/">>)

Unset == <<"<unset>">>
NoBuild == [symbol |-> None, dirs |-> <<>>, file |-> None, root |-> <<>>, style |-> None]

----------------------------------------------------------------------------
(* The state machine                                                        *)

Init ==
    /\ \/ doc \in Documents /\ host = Host(path_unix)
       \/ doc \in OneSegment /\ host \in {Host(path_windows), Host(None)}
    /\ before = None
    /\ args = NoArgs
    /\ result = ""
    /\ edit = <<>>
    /\ scan = NoScan
    /\ calls = 0
    /\ bis_in = NoBuild
    /\ bis_out = [f \in RootForms |-> Unset]

\* InsertPythonAutoImportCommand.run(edit, entry, symbol, style), lines 313-314
InsertImport ==
    /\ calls < MaxCalls
    /\ \E c \in host.commands, past_end \in PastEndAnswers(doc) :
          LET o == insert_import(doc, host.file_name, host.root_path, past_end,
                                 c.entry[1], c.entry[2], c.symbol, c.style)
          IN  /\ doc' = o.doc
              /\ result' = o.result
              /\ edit' = o.edit
              /\ scan' = o.scan
              /\ args' = c
    /\ before' = doc
    /\ calls' = calls + 1
    /\ UNCHANGED <<host, bis_in, bis_out>>

Next == InsertImport

Spec == Init /\ [][Next]_vars

\* the merge and wrap step on long imports
InitWrap ==
    /\ doc \in WrapDocuments
    /\ host = WrapHost
    /\ before = None
    /\ args = NoArgs
    /\ result = ""
    /\ edit = <<>>
    /\ scan = NoScan
    /\ calls = 0
    /\ bis_in = NoBuild
    /\ bis_out = [f \in RootForms |-> Unset]

SpecWrap == InitWrap /\ [][Next]_vars

\* build_import_statement on its own
InitBuild ==
    /\ bis_in \in [symbol : {sym_a}, dirs : Dirs(MaxDepth), file : FileNames,
                   root : Dirs(MaxDepth), style : {COMPONENT, ABSOLUTE}]
    /\ bis_out = [f \in RootForms |-> Unset]
    /\ doc = <<>>
    /\ host = [file_name |-> None, root_path |-> <<"/">>, commands |-> {}]
    /\ before = None
    /\ args = NoArgs
    /\ result = ""
    /\ edit = <<>>
    /\ scan = NoScan
    /\ calls = 0

\* build_import_statement(symbol, path, root_path, style) with the root
\* given in form f
Build(f) ==
    /\ bis_out[f] = Unset
    /\ bis_out' = [bis_out EXCEPT ![f] =
          build_import_statement(bis_in.symbol, FilePath(bis_in.dirs, bis_in.file),
                                 RootForm(f, bis_in.root), bis_in.style)]
    /\ UNCHANGED <<doc, before, args, result, edit, scan, host, calls, bis_in>>

NextBuild == \E f \in RootForms : Build(f)

SpecBuild == InitBuild /\ [][NextBuild]_vars

\* build_import_statement for a package directory: once for its
\* __init__.py, once for the directory path with .py appended, the root
\* given in one of its forms
PackagePath(dirs) == <<"/">> \o Join(dirs, <<"/">>)
PackageFiles == {"init", "module"}
PackageFile(k, dirs) ==
    IF k = "init" THEN PackagePath(dirs) \o <<"/">> \o init_name \o dot_py
    ELSE PackagePath(dirs) \o dot_py

InitPackage ==
    /\ bis_in \in [symbol : {sym_a}, dirs : Dirs(MaxDepth) \ {<<>>},
                   root : Dirs(MaxDepth), form : RootForms,
                   style : {COMPONENT, ABSOLUTE}]
    /\ bis_out = [k \in PackageFiles |-> Unset]
    /\ doc = <<>>
    /\ host = [file_name |-> None, root_path |-> <<"/">>, commands |-> {}]
    /\ before = None
    /\ args = NoArgs
    /\ result = ""
    /\ edit = <<>>
    /\ scan = NoScan
    /\ calls = 0

BuildPackage(k) ==
    /\ bis_out[k] = Unset
    /\ bis_out' = [bis_out EXCEPT ![k] =
          build_import_statement(bis_in.symbol, PackageFile(k, bis_in.dirs),
                                 RootForm(bis_in.form, bis_in.root), bis_in.style)]
    /\ UNCHANGED <<doc, before, args, result, edit, scan, host, calls, bis_in>>

NextPackage == \E k \in PackageFiles : BuildPackage(k)

SpecPackage == InitPackage /\ [][NextPackage]_vars

\* The loop of lines 229-303 one line at a time.  While the loop runs,
\* result is empty and scan holds the locals after the last line classified.
SCANNING == ""

\* the arguments of the call as the loop uses them
CallOf(c, past_end, import_statement) ==
    [import_statement |-> import_statement,
     import_base |-> split_import_components(import_statement).base,
     symbol |-> c.symbol, style |-> c.style, past_end |-> past_end]

\* lines 230-303 for line k: either the call ends, or the loop goes on
\* with new locals
loop_body(text, lines, k, call, insert_at, flags) ==
    LET line == view_substr(text, lines[k])
        anchor == IF Falsy(insert_at) THEN lines[k] ELSE insert_at
        now == next_flags(flags, line)
    IN  IF Strip(line) = call.import_statement
        THEN Ended(text, ALREADY_EXISTS, Locals(call, k, insert_at, flags))
        ELSE IF /\ call.style = COMPONENT
                /\ StartsWith(Strip(line), kw_from \o <<" ">> \o call.import_base
                                           \o <<" ">> \o kw_import)
        THEN merge(text, lines[k], line, call.symbol, call.past_end,
                   Locals(call, k, anchor, now))
        ELSE IF now.in_block \/ IMPORT_CHECK_SKIP_RE(line)
        THEN Ended(text, SCANNING,
                   Locals(call, k,
                          IF ~now.in_block /\ (IMPORT_CHECK_VALID_RE(line) \/ now.file_top)
                          THEN lines[k] ELSE anchor,
                          now))
        ELSE insert(text, call, Locals(call, k, anchor, now))

\* the commands that get as far as the loop
LoopCommands ==
    {c \in Commands : /\ c.style \in {COMPONENT, ABSOLUTE}
                      /\ c.entry = entry_m
                      /\ c.symbol # sym_imports}

\* documents of triple-quote lines of both styles: a lone delimiter of
\* either style, a delimiter followed by text, a one-line docstring, and an
\* import
MaxQuoteLines == 3
QuoteLines ==
    {dquotes, squotes, dquotes \o <<"t">>, dquotes \o <<"t">> \o dquotes,
     Words(<<kw_import, <<"o">>>>)}

RECURSIVE QuoteLineSeqs(_)
QuoteLineSeqs(n) ==
    IF n = 1 THEN {<<l>> : l \in QuoteLines}
    ELSE QuoteLineSeqs(n - 1)
             \cup {Append(q, l) : q \in QuoteLineSeqs(n - 1), l \in QuoteLines}

QuoteDocuments == {Text(q) : q \in QuoteLineSeqs(MaxQuoteLines)}

InitScan ==
    /\ doc \in Documents \cup QuoteDocuments
    /\ host = Host(path_unix)
    /\ before = doc
    /\ args \in LoopCommands
    /\ result = SCANNING
    /\ edit = <<>>
    /\ scan = [NoScan EXCEPT !.import_statement =
                  build_import_statement(args.symbol, args.entry[2],
                                         host.root_path, args.style)]
    /\ calls = 0
    /\ bis_in = NoBuild
    /\ bis_out = [f \in RootForms |-> Unset]

\* one pass through the body of the for loop of line 229
ScanLine ==
    /\ result = SCANNING
    /\ scan.line_no < Len(AllLines(doc))
    /\ \E past_end \in PastEndAnswers(doc) :
          LET o == loop_body(doc, view_lines(doc, Region(0, view_size(doc)), past_end),
                             scan.line_no + 1,
                             CallOf(args, past_end, scan.import_statement),
                             scan.insert_at,
                             [in_block |-> scan.in_block, file_top |-> scan.file_top])
          IN  /\ doc' = o.doc
              /\ result' = o.result
              /\ edit' = o.edit
              /\ scan' = o.scan
              /\ calls' = IF o.result = SCANNING THEN 0 ELSE 1
    /\ UNCHANGED <<before, args, host, bis_in, bis_out>>

\* the for loop runs out of lines: lines 305-311
EndOfLines ==
    /\ result = SCANNING
    /\ scan.line_no = Len(AllLines(doc))
    /\ LET o == insert(doc, CallOf(args, "clipped", scan.import_statement), scan)
       IN  /\ doc' = o.doc
           /\ result' = o.result
           /\ edit' = o.edit
           /\ scan' = o.scan
    /\ calls' = 1
    /\ UNCHANGED <<before, args, host, bis_in, bis_out>>

NextScan == ScanLine \/ EndOfLines

SpecScan == InitScan /\ [][NextScan]_vars

\* split_import_components on the text of an import statement as the scan
\* hands it over (its physical lines joined): a head, then pieces separated
\* by commas, plain, in parentheses or after a backslash
MaxPieces == 3
Pieces == {<<"a">>, <<" ", "b">>, <<"o", " ">>, <<>>, <<" ">>}

RECURSIVE PieceLists(_)
PieceLists(n) ==
    IF n = 1 THEN {<<q>> : q \in Pieces}
    ELSE PieceLists(n - 1) \cup {Append(l, q) : l \in PieceLists(n - 1), q \in Pieces}

Heads == {from_m_import, sp \o from_m_import, kw_import}
Forms == {"plain", "parenthesized", "backslash"}
Statement(head, form, pieces) ==
    CASE form = "plain" -> head \o sp \o Join(pieces, <<",">>)
      [] form = "parenthesized" -> head \o <<" ", "(">> \o Join(pieces, <<",">>) \o <<")">>
      [] form = "backslash" -> head \o <<" ", "\\">> \o Join(pieces, <<",">>)

InitSplit ==
    /\ bis_in \in {Statement(h, f, l) : h \in Heads, f \in Forms, l \in PieceLists(MaxPieces)}
    /\ bis_out = <<>>
    /\ doc = <<>>
    /\ host = [file_name |-> None, root_path |-> <<"/">>, commands |-> {}]
    /\ before = None
    /\ args = NoArgs
    /\ result = ""
    /\ edit = <<>>
    /\ scan = NoScan
    /\ calls = 0

SplitStatement ==
    /\ bis_out = <<>>
    /\ bis_out' = <<split_import_components(bis_in)>>
    /\ UNCHANGED <<doc, before, args, result, edit, scan, host, calls, bis_in>>

NextSplit == SplitStatement

SpecSplit == InitSplit /\ [][NextSplit]_vars

----------------------------------------------------------------------------
(* Vocabulary of the properties: lines, statements, block comments, anchors *)

NumLines(text) == Len(AllLines(text))
LineText(text, k) == view_substr(text, AllLines(text)[k])

\* the line of the buffer whose region is r
LineOf(text, r) == CHOOSE k \in 1..NumLines(text) : AllLines(text)[k] = r

\* The last physical line of the statement that starts on line k: a line
\* that leaves a parenthesis open, or that ends with a backslash, is
\* continued on the next line.
RECURSIVE StatementLast(_, _, _)
StatementLast(text, k, open) ==
    LET line == LineText(text, k)
        still_open == (open \/ Contains(line, "(")) /\ ~Contains(line, ")")
    IN  IF (still_open \/ EndsWith(Strip(line), <<"\\">>)) /\ k < NumLines(text)
        THEN StatementLast(text, k + 1, still_open) ELSE k

\* the physical lines of the statement that starts on line k, joined
RECURSIVE JoinLines(_, _, _)
JoinLines(text, k, last) ==
    IF k > last THEN <<>> ELSE LineText(text, k) \o JoinLines(text, k + 1, last)
LogicalStatement(text, k) == JoinLines(text, k, StatementLast(text, k, FALSE))

\* text with statement put on a fresh line directly after line k
InsertedAfter(text, k, statement) ==
    LET at == AllLines(text)[k].b
    IN  SubSeq(text, 1, at) \o <<"\n">> \o statement \o SubSeq(text, at + 1, Len(text))

\* line k lies inside a block comment: an odd number of delimiter lines up
\* to and including it (an opening delimiter is inside, a closing one not)
BlockAfter(text, k) ==
    Cardinality({j \in 1..k : is_block_comment(LineText(text, j))}) % 2 = 1

\* the scan is still at the top of the file on line k: every line so far is
\* a comment line or lies in a block comment
AtFileTop(text, k) ==
    \A j \in 1..k : BlockAfter(text, j) \/ StartsWith(LineText(text, j), <<"#">>)

\* the first real-code line: the first line outside a block comment that is
\* not skipped; one past the last line when there is none
FirstRealCode(text) ==
    SetMin({k \in 1..NumLines(text) :
                ~BlockAfter(text, k) /\ ~IMPORT_CHECK_SKIP_RE(LineText(text, k))}
           \cup {NumLines(text) + 1})

AnchorValid(text, k) ==
    /\ ~BlockAfter(text, k)
    /\ \/ StartsWith(LineText(text, k), dunder)
       \/ StartsWith(LineText(text, k), kw_import)
       \/ StartsWith(LineText(text, k), kw_from)
       \/ StartsWith(LineText(text, k), <<"#">>) /\ AtFileTop(text, k)

\* the anchor: the last anchor-valid line before the first real-code line,
\* the first line of the document when there is none
ClaimedAnchor(text) ==
    LET valid == {k \in 1..(FirstRealCode(text) - 1) : AnchorValid(text, k)}
    IN  IF valid = {} THEN 1 ELSE SetMax(valid)

\* the column budget of a physical line of a wrapped statement
LineBudget == 76

\* the physical lines of the text the last call wrote
FinalLines == Split(edit[1].string, <<"\n">>)

\* a physical line that holds one component name and nothing else but
\* continuation syntax
HoldsOneName(line) ==
    LET name == StripChars(line, {" ", ",", "(", ")", "\\"})
    IN  name # <<>> /\ ~Contains(name, " ")

\* the characters of continuation syntax a form adds to a wrapped line:
\* a space and a backslash in the backslash form, one parenthesis in the
\* parenthesized form
SyntaxRoom == IF Contains(scan.existing_import, "\\") THEN 2 ELSE 1

\* directory list r is a prefix of directory list d
Under(d, r) == Len(r) <= Len(d) /\ SubSeq(d, 1, Len(r)) = r

AllBuilt == \A f \in RootForms : bis_out[f] # Unset

----------------------------------------------------------------------------
(* The properties                                                           *)

\* C1: whenever an insert_import call ends with the 'Added' (inserted)
\* result, the next call with the same arguments, on the resulting document,
\* ends with 'already exists' and leaves the document unchanged.
C1_SecondInsertAlreadyExists ==
    [][(result = INSERTED /\ args' = args)
          => (result' = ALREADY_EXISTS /\ doc' = doc)]_vars

\* a second call with the same arguments that added the statement again
C1_AddedTwice ==
    /\ calls = 2
    /\ result = INSERTED
    /\ Cardinality({k \in 1..NumLines(doc) : LineText(doc, k) = scan.import_statement}) = 2

\* C2: when a call merges a symbol into an existing import, the replaced
\* region starts at the first physical line of the original statement and
\* reaches the end of its last physical line, so that no line of the
\* original statement is left behind.  (Checked where a line follows the
\* import line, so that View.lines is asked about a region of the buffer.)
C2_RegionSpansStatement ==
    (result = MERGED /\ scan.line_no < NumLines(before)) =>
        /\ begin(edit[1].region) <= AllLines(before)[scan.line_no].a
        /\ end(edit[1].region) >=
               AllLines(before)[StatementLast(before, scan.line_no, FALSE)].b

\* a merge that left the last line of a parenthesized statement in the
\* document, below the merge result
C2_FragmentLeft ==
    /\ result = MERGED
    /\ StatementLast(before, scan.line_no, FALSE) = NumLines(before)
    /\ scan.line_no < NumLines(before)
    /\ LineText(doc, NumLines(doc)) = LineText(before, NumLines(before))

\* C3: in the insert-new outcome the statement is put on a fresh line
\* directly after the anchor: the last anchor-valid line before the first
\* real-code line, or the very first line of the document when no line is
\* anchor-valid.
C3_InsertedAfterAnchor ==
    result = INSERTED =>
        doc = InsertedAfter(before, ClaimedAnchor(before), scan.import_statement)

\* an insertion below a line of real code although the document starts with
\* a blank line and has no anchor-valid line
C3_DefaultAnchorMoved ==
    /\ result = INSERTED
    /\ calls = 1
    /\ LineText(before, 1) = <<>>
    /\ ClaimedAnchor(before) = 1
    /\ LineOf(before, scan.insert_at) = FirstRealCode(before)

\* C4: in the insert-new outcome the statement is never put inside a block
\* comment: the line it is put after is not between an opening triple-quote
\* delimiter line and its closing delimiter line.
C4_NeverInsideBlockComment ==
    result = INSERTED => ~BlockAfter(before, LineOf(before, scan.insert_at))

\* an insertion directly below the opening delimiter of a leading docstring
C4_InsideLeadingDocstring ==
    /\ result = INSERTED
    /\ calls = 1
    /\ LineText(before, 1) = dquotes
    /\ doc = InsertedAfter(before, 1, scan.import_statement)

\* C5: every insert_import call ends with one of the status results
\* self_import, unsupported_style, already_exists, merged or inserted; none
\* ends with an exception.
C5_NeverRaises == calls > 0 => result \in Statuses

\* a call for a symbol whose name contains "import" that ended with the
\* ValueError of split_import_components
C5_ValueErrorRaised ==
    /\ result = VALUE_ERROR
    /\ args.symbol = sym_imports
    /\ host.file_name # None

C7_ComponentsAppended ==
    (result = MERGED /\ scan.line_no < NumLines(before)) =>
        LET old == split_import_components(LogicalStatement(before, scan.line_no))
            new == split_import_components(LogicalStatement(doc, scan.line_no))
        IN  /\ ~new.raised
            /\ new.components = old.components \o <<args.symbol>>

\* a merge into an import inside a try block that took the indented code
\* line below the import for a component
C7_CodeLineTakenAsComponent ==
    /\ result = MERGED
    /\ calls = 1
    /\ StatementLast(before, scan.line_no, FALSE) = scan.line_no
    /\ Len(scan.existing_import_components) = 1
    /\ Contains(scan.existing_import_components[1], " ")

\* C8: if any line of the document, at any position, has stripped text
\* equal to the target import statement, the call ends with 'already
\* exists' and does not change the document.
C8_ExactLineAnywhere ==
    (/\ calls > 0
     /\ scan.import_statement # None
     /\ \E k \in 1..NumLines(before) : Strip(LineText(before, k)) = scan.import_statement)
        => (result = ALREADY_EXISTS /\ doc = before)

\* a call that added the statement although a line below the first line
\* of real code already held it
C8_AddedDespiteExactLine ==
    /\ calls = 1
    /\ result = INSERTED
    /\ \E k \in 1..NumLines(before) :
          /\ Strip(LineText(before, k)) = scan.import_statement
          /\ k > FirstRealCode(before)

\* C9: every insert_import call performs at most one view.replace: exactly
\* one, on one region, whose effect is the whole change of the document,
\* when the result is merged or inserted; none, with the document identical
\* before and after, when the result is self_import, unsupported_style or
\* already_exists.
C9_AtMostOneReplace ==
    calls > 0 =>
        /\ Len(edit) <= 1
        /\ result \in {MERGED, INSERTED} =>
              /\ Len(edit) = 1
              /\ doc = view_replace(before, edit[1].region, edit[1].string)
        /\ result \in {SELF_IMPORT, UNSUPPORTED_STYLE, ALREADY_EXISTS} =>
              /\ edit = <<>>
              /\ doc = before

\* a second call that found the symbol in the import the first call wrote
\* and left the document alone
C9_MergedThenUntouched ==
    /\ calls = 2
    /\ result = ALREADY_EXISTS
    /\ edit = <<>>
    /\ doc = before
    /\ scan.existing_import # None
    /\ Contains(scan.existing_import_components, args.symbol)

\* C10: for a file path that starts with the root path,
\* build_import_statement returns the same statement whether the root is
\* given bare, with a trailing slash, with a leading slash, with both, or
\* dotted.
C10_RootFormsAgree ==
    StartsWith(FilePath(bis_in.dirs, bis_in.file), RootForm("leading", bis_in.root)) =>
        \A f, g \in RootForms :
            (bis_out[f] # Unset /\ bis_out[g] # Unset) => bis_out[f] = bis_out[g]

\* a file path that starts with the root path, in a directory whose name
\* the root's name only begins: the root without a trailing slash is cut off
\* the middle of the directory name, the root with one is not
C10_RootCutsDirectoryName ==
    /\ AllBuilt
    /\ StartsWith(FilePath(bis_in.dirs, bis_in.file), RootForm("leading", bis_in.root))
    /\ ~Under(bis_in.dirs, bis_in.root)
    /\ bis_in.root # <<>>
    /\ bis_out["bare"] = bis_out["leading"]
    /\ bis_out["trailing"] = bis_out["both"]
    /\ bis_out["bare"] # bis_out["trailing"]

\* For a file below the root directory (the directories of the root are
\* the first directories of the path) the five forms of the root do agree.
RootFormsAgreeBelowRoot ==
    Under(bis_in.dirs, bis_in.root) =>
        \A f, g \in RootForms :
            (bis_out[f] # Unset /\ bis_out[g] # Unset) => bis_out[f] = bis_out[g]

\* the final text of the last merge, its physical lines joined the way the
\* scan joins continuation lines (line 261), parsed again
Reparsed == split_import_components(Join(FinalLines, <<>>))

\* C11: parsing the final text of a merge again gives the base and the
\* ordered component list of the single-line rendering it was wrapped from.
C11_ReparseSame ==
    result = MERGED =>
        /\ ~Reparsed.raised
        /\ Reparsed.base = split_import_components(scan.new_import_statement).base
        /\ Reparsed.components =
               split_import_components(scan.new_import_statement).components

\* a wrapped merge that broke the line inside a component (an indented code
\* line taken into the statement): parsed again, the component holds the
\* indent of the continuation line
C11_ComponentBrokenByWrap ==
    /\ result = MERGED
    /\ calls = 1
    /\ Len(FinalLines) > 1
    /\ ~Reparsed.raised
    /\ Len(Reparsed.components) = Len(scan.existing_import_components) + 1
    /\ \E i \in 1..Len(scan.existing_import_components) :
          /\ Contains(scan.existing_import_components[i], " ")
          /\ Reparsed.components[i] # scan.existing_import_components[i]

\* Where every component of the statement is a name (holds no whitespace),
\* parsing the final text again does give the base and the component list
\* of the single-line rendering.
ReparseSameForNames ==
    (/\ result = MERGED
     /\ \A i \in 1..Len(scan.existing_import_components) :
           ~Contains(scan.existing_import_components[i], " ")) =>
        /\ ~Reparsed.raised
        /\ Reparsed.base = split_import_components(scan.new_import_statement).base
        /\ Reparsed.components =
               split_import_components(scan.new_import_statement).components

\* both statements of a package directory are built
PackageBuilt == \A k \in PackageFiles : bis_out[k] # Unset

\* C12 as stated: for every package directory D (and every root),
\* D/__init__.py and D.py give the same statement.
C12_InitAndModuleAgree ==
    PackageBuilt => bis_out["init"] = bis_out["module"]

\* C12: for every package directory D other than the root directory
\* itself, build_import_statement gives the same statement for
\* D/__init__.py and for D.py, in Component and in Absolute style.
C12_InitAndModuleAgreeBelowRoot ==
    (PackageBuilt /\ bis_in.dirs # bis_in.root) =>
        bis_out["init"] = bis_out["module"]

\* a package directory below a root directory: the root was cut off both
\* paths and both give the statement of the package
C12_PackageBelowRoot ==
    /\ PackageBuilt
    /\ bis_in.root # <<>>
    /\ bis_in.dirs # bis_in.root
    /\ Under(bis_in.dirs, bis_in.root)
    /\ bis_in.style = ABSOLUTE
    /\ bis_out["init"] = bis_out["module"]
    /\ bis_out["init"] =
           kw_import \o <<" ">> \o bis_in.dirs[Len(bis_in.dirs)] \o <<".">> \o sym_a

\* the package directory is the root, given with a trailing slash: the
\* __init__.py gives an empty module path, D.py is not below the root
C12_RootPackage ==
    /\ PackageBuilt
    /\ bis_in.dirs = bis_in.root
    /\ bis_in.form = "trailing"
    /\ bis_in.style = COMPONENT
    /\ bis_out["init"] = kw_from \o <<" ", " ">> \o kw_import \o <<" ">> \o sym_a
    /\ bis_out["module"] # bis_out["init"]

\* the module path of the last call's entry
ModuleOfCall == import_path(args.entry[2], host.root_path)

\* the last call got as far as building its statement (it was not ended by
\* the self-import check or by an exception raised there)
BuiltByCall == calls > 0 /\ result \notin {SELF_IMPORT, TYPE_ERROR, ATTRIBUTE_ERROR}

\* C13: build_import_statement returns `from <module> import <symbol>` in
\* Component style and `import <module>.<symbol>` in Absolute style; in
\* Relative or any other style it returns nothing, and insert_import
\* reports unsupported_style and leaves the document as it was.
C13_TemplateOrUnsupported ==
    BuiltByCall =>
        CASE args.style = COMPONENT ->
                 /\ result # UNSUPPORTED_STYLE
                 /\ result # VALUE_ERROR =>
                        scan.import_statement =
                            kw_from \o <<" ">> \o ModuleOfCall \o <<" ">>
                                \o kw_import \o <<" ">> \o args.symbol
          [] args.style = ABSOLUTE ->
                 /\ result # UNSUPPORTED_STYLE
                 /\ result # VALUE_ERROR =>
                        scan.import_statement =
                            kw_import \o <<" ">> \o ModuleOfCall \o <<".">> \o args.symbol
          [] OTHER ->
                 /\ result = UNSUPPORTED_STYLE
                 /\ doc = before
                 /\ edit = <<>>

\* a call in Relative style on a document that holds imports: reported as
\* unsupported, nothing written
C13_RelativeUnsupported ==
    /\ calls > 0
    /\ args.style = RELATIVE
    /\ result = UNSUPPORTED_STYLE
    /\ doc = before
    /\ \E k \in 1..NumLines(doc) : StartsWith(LineText(doc, k), kw_from)

\* the module path inside a built statement: what stands between `from `
\* and ` import <symbol>`, or between `import ` and `.<symbol>`
ModuleIn(statement, symbol, style) ==
    IF style = COMPONENT
    THEN SubSeq(statement, Len(kw_from) + 2,
                Len(statement) - Len(symbol) - Len(kw_import) - 2)
    ELSE SubSeq(statement, Len(kw_import) + 2, Len(statement) - Len(symbol) - 1)

\* the segments of a dotted module path
PathSegments(module) == Split(module, <<".">>)

\* C14: the module path build_import_statement produces has no trailing
\* `__init__` segment and no `py` segment, and neither begins nor ends with
\* a dot.
C14_ModulePathClean ==
    \A f \in RootForms :
        bis_out[f] # Unset =>
            LET module == ModuleIn(bis_out[f], bis_in.symbol, bis_in.style)
                segs == PathSegments(module)
            IN  /\ segs[Len(segs)] # init_name
                /\ ~Contains(segs, <<"p", "y">>)
                /\ ~StartsWith(module, <<".">>)
                /\ ~EndsWith(module, <<".">>)

\* the __init__.py of a package two directories deep, below a root
\* directory: every form of the root gives the one-segment path of the
\* package
C14_PackageInitBelowRoot ==
    /\ AllBuilt
    /\ bis_in.file = init_name \o dot_py
    /\ Len(bis_in.dirs) = 2
    /\ Len(bis_in.root) = 1
    /\ Under(bis_in.dirs, bis_in.root)
    /\ \A f \in RootForms :
          ModuleIn(bis_out[f], bis_in.symbol, bis_in.style) = bis_in.dirs[2]

\* the lines of text from line k to line last
LinesOf(text, k, last) == [i \in 1..(last - k + 1) |-> LineText(text, k + i - 1)]

\* C15: a merge changes only the physical lines of the existing import
\* statement: the lines above it and the lines below it (an indented code
\* line below a single-line import among them) are the first and the last
\* lines of the document after the edit, unchanged and in their order.
\* (Checked where a line follows the import line, so that View.lines is
\* asked about a region of the buffer.)
C15_OtherLinesKept ==
    (result = MERGED /\ scan.line_no < NumLines(before)) =>
        LET k == scan.line_no
            last == StatementLast(before, k, FALSE)
            below == NumLines(before) - last
        IN  /\ NumLines(doc) >= (k - 1) + below + 1
            /\ LinesOf(doc, 1, k - 1) = LinesOf(before, 1, k - 1)
            /\ LinesOf(doc, NumLines(doc) - below + 1, NumLines(doc)) =
                   LinesOf(before, last + 1, NumLines(before))

\* a merge into a single-line import inside a try block, with an indented
\* code line and a further line below it: the document has lost a line and
\* the code line is no longer among its lines
C15_CodeLineLost ==
    /\ result = MERGED
    /\ calls = 1
    /\ LineText(before, 1) = kw_try \o <<":">>
    /\ scan.line_no = 2
    /\ StatementLast(before, 2, FALSE) = 2
    /\ NumLines(before) > 3
    /\ NumLines(doc) = NumLines(before) - 1
    /\ \A i \in 1..NumLines(doc) : LineText(doc, i) # LineText(before, 3)

\* the scan of the last call went through the whole document: no line is
\* real code, and the call ended below the loop
ScannedToEnd ==
    /\ result = INSERTED
    /\ FirstRealCode(before) > NumLines(before)

\* the anchor-valid lines of a document
ValidLines(text) == {k \in 1..NumLines(text) : AnchorValid(text, k)}

\* C16 as stated: when the scan goes through the whole document without
\* meeting real code, the final anchor is the last line of the document.
C16_AnchorIsLastLine ==
    ScannedToEnd => LineOf(before, scan.insert_at) = NumLines(before)

\* C16: when the scan goes through the whole document without meeting real
\* code and the document has an anchor-valid line, the final anchor is the
\* last anchor-valid line of the document.
C16_AnchorIsLastValidLine ==
    (ScannedToEnd /\ ValidLines(before) # {}) =>
        LineOf(before, scan.insert_at) = SetMax(ValidLines(before))

\* a document of an import followed by a comment or blank line, scanned to
\* its end: the statement is put below the import, above the last line
C16_AnchorAboveLastLine ==
    /\ ScannedToEnd
    /\ calls = 1
    /\ ValidLines(before) # {}
    /\ SetMax(ValidLines(before)) < NumLines(before)
    /\ scan.line_no = NumLines(before)
    /\ doc = InsertedAfter(before, SetMax(ValidLines(before)), scan.import_statement)

\* The loop taken line by line ends as insert_import does.
ScanAgrees ==
    (result # SCANNING /\ calls = 1 /\ host.commands # {} /\ before # None /\ args \in LoopCommands) =>
        \E past_end \in PastEndAnswers(before) :
            LET o == insert_import(before, host.file_name, host.root_path, past_end,
                                   args.entry[1], args.entry[2], args.symbol, args.style)
            IN  /\ o.doc = doc
                /\ o.result = result
                /\ o.edit = edit
                /\ o.scan = scan

\* the line the anchor is on; the first line while none was assigned
AnchorLine(locals) ==
    IF locals.insert_at = NoRegion THEN 1 ELSE LineOf(before, locals.insert_at)

\* the line being classified is skipped and may carry the anchor: outside
\* a block comment, a skip line that is anchor-valid or at the file top
MayCarryAnchor(k) ==
    /\ ~scan'.in_block
    /\ IMPORT_CHECK_SKIP_RE(LineText(before, k))
    /\ IMPORT_CHECK_VALID_RE(LineText(before, k)) \/ scan'.file_top

\* C17: during one scan the anchor's line never decreases and moves only
\* to the line being classified, and only when that line is a skip line
\* that is anchor-valid or at the file top; at the first line outside a
\* block comment that is not skipped the scan stops on that line, and
\* after it has stopped the anchor stays.
C17_AnchorMovesOnlyToValidLines ==
    [][/\ result = SCANNING =>
             /\ AnchorLine(scan') >= AnchorLine(scan)
             /\ AnchorLine(scan') # AnchorLine(scan) =>
                    /\ AnchorLine(scan') = scan.line_no + 1
                    /\ MayCarryAnchor(scan.line_no + 1)
             /\ (/\ scan.line_no < NumLines(before)
                 /\ ~scan'.in_block
                 /\ ~IMPORT_CHECK_SKIP_RE(LineText(before, scan.line_no + 1))) =>
                    /\ result' # SCANNING
                    /\ scan'.line_no = scan.line_no + 1
       /\ result # SCANNING => scan' = scan]_vars

\* the scan stopped on a line of real code below a blank first line, with
\* the anchor on that line of code
C17_AnchorOnRealCode ==
    /\ result = INSERTED
    /\ LineText(before, 1) = <<>>
    /\ scan.line_no = 2
    /\ ~IMPORT_CHECK_SKIP_RE(LineText(before, 2))
    /\ AnchorLine(scan) = 2

\* Apart from the default of lines 236-237 taken again while the anchor is
\* an empty line, the anchor moves and the scan stops as C17 says.
AnchorMovesOnlyToValidLinesOrDefault ==
    [][/\ result = SCANNING =>
             /\ AnchorLine(scan') >= AnchorLine(scan)
             /\ AnchorLine(scan') # AnchorLine(scan) =>
                    /\ AnchorLine(scan') = scan.line_no + 1
                    /\ MayCarryAnchor(scan.line_no + 1) \/ Falsy(scan.insert_at)
             /\ (/\ scan.line_no < NumLines(before)
                 /\ ~scan'.in_block
                 /\ ~IMPORT_CHECK_SKIP_RE(LineText(before, scan.line_no + 1))) =>
                    /\ result' # SCANNING
                    /\ scan'.line_no = scan.line_no + 1
       /\ result # SCANNING => scan' = scan]_vars

\* the two sides of a statement text that holds `import` once
LeftSide(statement) == Split(statement, kw_import)[1]
RightSide(statement) == Split(statement, kw_import)[2]

\* the comma-separated pieces of the right side without parentheses and
\* backslashes, each stripped
StrippedPieces(statement) ==
    LET pieces == Split(RemoveChars(RightSide(statement), {"(", ")", "\\"}), <<",">>)
    IN  [i \in 1..Len(pieces) |-> Strip(pieces[i])]

\* C18: for a statement text that holds `import` once,
\* split_import_components returns the left side without `from` and
\* surrounding whitespace as the base, and as components the stripped
\* comma-separated pieces of the right side, the empty ones dropped, in
\* their order; no component is the empty string.
C18_StrippedNonEmptyPieces ==
    (bis_out # <<>> /\ Cardinality(Occurrences(bis_in, kw_import)) = 1) =>
        /\ ~bis_out[1].raised
        /\ bis_out[1].base = Strip(RemoveAll(LeftSide(bis_in), kw_from))
        /\ bis_out[1].components =
               SelectSeq(StrippedPieces(bis_in), LAMBDA c : c # <<>>)
        /\ ~Contains(bis_out[1].components, <<>>)

\* a statement with a blank after its last comma, split: the component
\* list ends with an empty string
C18_EmptyComponent ==
    /\ bis_out # <<>>
    /\ ~bis_out[1].raised
    /\ bis_out[1].base = mod_m
    /\ Len(bis_out[1].components) = 2
    /\ bis_out[1].components[1] = sym_a
    /\ bis_out[1].components[2] = <<>>

\* For a statement with no piece made of whitespace only, the result is as
\* C18 says.
StrippedNonEmptyPiecesWithoutBlankPiece ==
    (/\ bis_out # <<>>
     /\ Cardinality(Occurrences(bis_in, kw_import)) = 1
     /\ \A i \in 1..Len(StrippedPieces(bis_in)) :
           StrippedPieces(bis_in)[i] = <<>> =>
               Split(RemoveChars(RightSide(bis_in), {"(", ")", "\\"}), <<",">>)[i] = <<>>) =>
        /\ ~bis_out[1].raised
        /\ bis_out[1].base = Strip(RemoveAll(LeftSide(bis_in), kw_from))
        /\ bis_out[1].components =
               SelectSeq(StrippedPieces(bis_in), LAMBDA c : c # <<>>)
        /\ ~Contains(bis_out[1].components, <<>>)

\* the lines of text that start a `from <base> import` statement of the
\* module of the last call
StatementsOfBase(text) ==
    {k \in 1..NumLines(text) :
        StartsWith(Strip(LineText(text, k)),
                   kw_from \o <<" ">> \o ModuleOfCall \o <<" ">> \o kw_import)}

\* C19: in a sequence of Component-style calls for distinct symbols of one
\* module, a call that follows a call that ended with a status is never
\* 'Added': only the first call can add a statement, so the document does
\* not gain a second `from <base> import` statement.
C19_OnlyFirstCallAdds ==
    [][(/\ result \in {INSERTED, MERGED, ALREADY_EXISTS}
        /\ args.style = COMPONENT
        /\ args'.style = COMPONENT
        /\ args'.entry = args.entry
        /\ args'.symbol # args.symbol)
          => result' # INSERTED]_vars

\* a second call for another symbol of the module, on a document whose
\* first line is real code and that holds the statement the first call
\* added: a second statement is added
C19_SecondStatementAdded ==
    /\ calls = 2
    /\ result = INSERTED
    /\ args.style = COMPONENT
    /\ FirstRealCode(before) = 1
    /\ Cardinality(StatementsOfBase(before)) = 1
    /\ Cardinality(StatementsOfBase(doc)) = 2

\* a line whose stripped text is the lone delimiter q, or starts with q
\* and does not end with it
DelimiterLine(line, q) ==
    \/ Strip(line) = q
    \/ StartsWith(Strip(line), q) /\ ~EndsWith(Strip(line), q)

\* the delimiter of the block comment that is open after line k, where a
\* block opened with one delimiter is ended only by a delimiter line of
\* the same style; NoStyle outside a block comment
NoStyle == <<>>
RECURSIVE OpenStyle(_, _)
OpenStyle(text, k) ==
    IF k = 0 THEN NoStyle
    ELSE LET open == OpenStyle(text, k - 1)
             line == LineText(text, k)
         IN  IF open = NoStyle
             THEN IF DelimiterLine(line, dquotes) THEN dquotes
                  ELSE IF DelimiterLine(line, squotes) THEN squotes
                  ELSE NoStyle
             ELSE IF DelimiterLine(line, open) THEN NoStyle ELSE open

\* the step classifies the next line and sets the flags for it
ClassifiesLine ==
    /\ result = SCANNING
    /\ scan'.line_no = scan.line_no + 1
    /\ result' # ALREADY_EXISTS

\* C20: the in_block flag flips exactly on the lines that are a lone
\* triple-quote delimiter or start with one without ending with it, and the
\* two styles are kept apart: after each line the flag is set exactly when
\* a block comment is open that no delimiter line of its own style has
\* ended.
C20_FlagFollowsDelimiterStyles ==
    [][ClassifiesLine =>
          /\ (scan'.in_block # scan.in_block) <=>
                 \/ DelimiterLine(LineText(before, scan'.line_no), dquotes)
                 \/ DelimiterLine(LineText(before, scan'.line_no), squotes)
          /\ scan'.in_block <=> OpenStyle(before, scan'.line_no) # NoStyle]_vars

\* the scan has taken a line of three single quotes inside a block comment
\* opened with three double quotes for the end of the block
C20_BlockEndedByOtherStyle ==
    /\ scan.line_no = 2
    /\ LineText(before, 1) = dquotes
    /\ LineText(before, 2) = squotes
    /\ ~scan.in_block
    /\ OpenStyle(before, 2) = dquotes

\* The flag does flip exactly on the delimiter lines of either style.
FlagFlipsOnDelimiterLines ==
    [][ClassifiesLine =>
          ((scan'.in_block # scan.in_block) <=>
               \/ DelimiterLine(LineText(before, scan'.line_no), dquotes)
               \/ DelimiterLine(LineText(before, scan'.line_no), squotes))]_vars
====
